---- MODULE Spec2Model ----
(***************************************************************************)
(* LangGraph -> Vercel AI data-stream adapter (vercel_langgraph.ts).       *)
(*                                                                         *)
(* One stream session: an upstream async event sequence (streamResponse)   *)
(* is filtered by deltaMessagesGenerator, wrapped in the start / finish    *)
(* envelope by fullDataStreamGenerator and exposed through a               *)
(* ReadableStream by asyncGeneratorToReadableStream.  The model follows    *)
(* the async-generator request queue of ECMAScript and the default         *)
(* controller of the Streams standard that the adapter code runs on.       *)
(***************************************************************************)
EXTENDS Integers, Sequences, FiniteSets, TLC

\* ------------------------------------------------------------------ bounds
MaxEvents == 2          \* longest upstream event sequence explored
MaxReadRequests == 1    \* reads the consumer leaves outstanding at once

\* ------------------------------------------------------- JavaScript values
\* An optional value: <<>> is undefined / absent, <<x>> is the value x.
None == <<>>
Some(x) == <<x>>
IsSome(o) == Len(o) = 1
Get(o) == o[1]

BoundedSeq(S, n) == UNION {[1..k -> S] : k \in 0..n}

\* ------------------------------------------------------- upstream events
NodeTags == {"generate_message", "other_node"}

\* messageLike: data[0];  metadata: data[1]
Msg(content) == Some([content |-> content])
Meta(tag) == Some([langgraph_node |-> tag])
Event(kind, msg, meta) == [event |-> kind, data |-> Some(<<msg, meta>>)]
EventNoData(kind) == [event |-> kind, data |-> None]

\* The event shapes the upstream is driven with: well-formed content
\* deltas of both producers, another event kind, and every loss of shape
\* the filter has a branch for.
UpstreamEvents ==
    { Event("messages", Msg(Some("Hi")), Meta(Some("generate_message"))),
      Event("messages", Msg(Some("Yo")), Meta(Some("generate_message"))),
      Event("messages", Msg(Some("Hi")), Meta(Some("other_node"))),
      Event("metadata", Msg(Some("Hi")), Meta(Some("generate_message"))),
      Event("messages", Msg(Some("")), Meta(Some("generate_message"))),
      Event("messages", Msg(None), Meta(Some("generate_message"))),
      Event("messages", None, Meta(Some("generate_message"))),
      Event("messages", Msg(Some("Hi")), Meta(None)),
      Event("messages", Msg(Some("Hi")), None),
      EventNoData("messages"),
      EventNoData("metadata") }

MessageIds == {"msg-1", "msg-2"}

\* ------------------------------------------------------------ frame encoder
DataStreamPartCode(type) ==
    CASE type = "text" -> "0"
      [] type = "start_step" -> "f"
      [] type = "finish_step" -> "e"
      [] type = "finish_message" -> "d"

\* `${code}:${JSON.stringify(value)}\n`, kept as the pair of its two fields
formatDataStreamPart(type, value) == <<DataStreamPartCode(type), value>>

PartCode(part) == part[1]
PartValue(part) == part[2]

PromptTokens == 55
CompletionTokens == 20

\* Mutant: the start frame carries an identifier generated anew.
StartStepPartFreshId(id) == formatDataStreamPart("start_step", [messageId |-> "msg-0"])

StartStepPart(id) == formatDataStreamPart("start_step", [messageId |-> id])

TextPart(current) == formatDataStreamPart("text", current)

FinishStepPart ==
    formatDataStreamPart("finish_step",
        [finishReason |-> "stop",
         usage |-> [promptTokens |-> PromptTokens,
                    completionTokens |-> CompletionTokens],
         isContinued |-> FALSE])

\* Mutant: finish_message reports counts of its own.
FinishMessagePartCounted ==
    formatDataStreamPart("finish_message",
        [finishReason |-> "stop",
         usage |-> [promptTokens |-> PromptTokens,
                    completionTokens |-> CompletionTokens + 1]])

FinishMessagePart ==
    formatDataStreamPart("finish_message",
        [finishReason |-> "stop",
         usage |-> [promptTokens |-> PromptTokens,
                    completionTokens |-> CompletionTokens]])

\* ------------------------------------------- deltaMessagesGenerator filter
\* Mutant: the kind of the event is not looked at.
IsAnyEvent(message) == message.event \in {"messages", "metadata"}

\* message.event == 'messages'
IsMessagesEvent(message) == message.event = "messages"

\* message.data[1] on an absent data: TypeError
DataAccessThrows(message) == ~IsSome(message.data)

\* message.data[1] is truthy
HasMetadata(message) == IsSome(Get(message.data)[2])

\* Mutant: any producer tag passes, whatever the inclusion set.
IncludesAnyNode(nodes, message) ==
    IsSome(Get(Get(message.data)[2]).langgraph_node)

\* streamingNodes.includes(message.data[1]["langgraph_node"])
IncludesNode(nodes, message) ==
    LET streaming_node == Get(Get(message.data)[2]).langgraph_node
    IN  IsSome(streaming_node) /\ Get(streaming_node) \in nodes

\* Mutant: content is tested against undefined only, so '' passes.
HasContentLoose(message) ==
    LET msg == Get(message.data)[1]
    IN  IsSome(msg) /\ IsSome(Get(msg).content)

\* msg?.content is truthy
HasContent(message) ==
    LET msg == Get(message.data)[1]
    IN  /\ IsSome(msg)
        /\ IsSome(Get(msg).content)
        /\ Get(Get(msg).content) # ""

\* What one iteration of the for-await body does with `message`.
DeltaStep(message, nodes) ==
    IF IsMessagesEvent(message)
    THEN IF DataAccessThrows(message)
         THEN "throw"
         ELSE IF HasMetadata(message)
              THEN IF IncludesNode(nodes, message) /\ HasContent(message)
                   THEN "yield"
                   ELSE "skip"
              ELSE "skip"
    ELSE "skip"

\* ------------------------------------------------------------------ state
VARIABLES
    streamResponse,   \* the events the upstream sequence yields, in order
    streamingNodes,   \* the inclusion set passed to toDataStreamResponse
    messageId,        \* generateId() of the session
    upState,          \* upstream iterator: idle, pending, done, failed, returning, returned
    upPos,            \* number of upstream events delivered so far
    upNextCalls,      \* calls of the upstream's next()
    upReturnCalls,    \* calls of the upstream's return()
    deltaState,       \* deltaMessagesGenerator: none, awaitUp, yield, closingUp, closingUpThrow, completed
    message,          \* loop variable of deltaMessagesGenerator (optional)
    fullState,        \* fullDataStreamGenerator: start, yStart, awaitDelta, yDelta, closing, yStep, yMsg, completed
    genQueue,         \* unsettled requests of the fullDataStreamGenerator object
    produced,         \* frames yielded by fullDataStreamGenerator
    pullResult,       \* settled result of generator.next() the pull callback awaits
    cancelState,      \* cancel(): none, pending, done
    rsState,          \* ReadableStream: readable, closed, errored
    started,          \* controller [[started]]
    pulling,          \* controller [[pulling]]
    pullAgain,        \* controller [[pullAgain]]
    closeRequested,   \* controller [[closeRequested]]
    queue,            \* controller [[queue]]
    readRequests,     \* pending read requests of the reader
    delivered,        \* chunks the consumer's reads resolved with
    consumerEnd,      \* what the consumer's reads have seen: open, done, error
    pullOutcome,      \* how the last pull callback ended
    pullCalls,        \* calls of the pull callback by the controller
    genNextCalls,     \* calls of generator.next() by the pull callback
    headers,          \* prepareResponseHeaders: caller-supplied HeadersInit (optional)
    options,          \* prepareResponseHeaders: { contentType, dataStreamVersion }
    responseHeaders,  \* prepareResponseHeaders: the Headers returned (optional)
    response,         \* the Response of toDataStreamResponse (optional)
    processEnv,       \* process.env.LANGGRAPH_API_URL / LANGGRAPH_API_KEY
    langGraphClientInstance,  \* module-level cached Client (optional)
    clientsConstructed,       \* runs of `new Client(...)`
    clientCalls,      \* calls of createLangGraphClient
    returnedClient    \* what the last createLangGraphClient call returned

inputVars == <<streamResponse, streamingNodes, messageId>>
upVars == <<upState, upPos, upNextCalls, upReturnCalls>>
genVars == <<deltaState, message, fullState, genQueue, produced, pullResult, cancelState,
             genNextCalls>>
streamVars == <<rsState, started, pulling, pullAgain, closeRequested, queue, readRequests,
                pullCalls>>
consumerVars == <<delivered, consumerEnd, pullOutcome>>
headerVars == <<headers, options, responseHeaders, response>>
clientVars == <<processEnv, langGraphClientInstance, clientsConstructed, clientCalls,
                returnedClient>>
glueVars == <<headerVars, clientVars>>
vars == <<inputVars, upVars, genVars, streamVars, consumerVars, glueVars>>

\* Mutant: the text read depends on whether a cancel is waiting.
CurrentRacy(ev) ==
    IF cancelState = "pending" THEN "" ELSE Get(Get(Get(ev.data)[1]).content)

\* const current = msg.content
Current(ev) == Get(Get(Get(ev.data)[1]).content)

NoResult == [kind |-> "none"]
ValueResult(v) == [kind |-> "value", value |-> v]
DoneResult == [kind |-> "done"]
ErrorResult == [kind |-> "error"]

\* new ReadableStream(source) without a strategy: high water mark 1
\* Mutant: the stream buffers two chunks ahead of the consumer.
HighWaterMarkDoubled == 1 + 1

HighWaterMark == 1

\* ------------------------------------------------------- response headers
MaxClientCalls == 3     \* calls of createLangGraphClient explored

\* Header names are case-insensitive: a Headers object keeps them lower-cased.
LowerCase(name) ==
    CASE name = "Content-Type" -> "content-type"
      [] name = "X-Vercel-AI-Data-Stream" -> "x-vercel-ai-data-stream"
      [] name = "X-Request-Id" -> "x-request-id"
      [] OTHER -> name

RawHeaderNames == {"Content-Type", "content-type", "X-Vercel-AI-Data-Stream", "X-Request-Id"}
RawHeaderValues == {"application/json", "v0"}

\* HeadersInit records in which no header is spelled twice.
HeadersInits ==
    UNION {[D -> RawHeaderValues] :
            D \in {E \in SUBSET RawHeaderNames :
                    \A a, b \in E : LowerCase(a) = LowerCase(b) => a = b}}

\* new Headers(init)
NewHeaders(init) ==
    [n \in {LowerCase(k) : k \in DOMAIN init} |->
        init[CHOOSE k \in DOMAIN init : LowerCase(k) = n]]

HeadersHas(h, name) == LowerCase(name) \in DOMAIN h

HeadersSet(h, name, value) ==
    [n \in DOMAIN h \cup {LowerCase(name)} |->
        IF n = LowerCase(name) THEN value ELSE h[n]]

\* Mutant: Content-Type is set whether or not the caller supplied one.
prepareResponseHeadersOverwrite(hdrs, opts) ==
    LET withType == HeadersSet(NewHeaders(IF IsSome(hdrs) THEN Get(hdrs) ELSE <<>>),
                               "Content-Type", opts.contentType)
    IN  IF IsSome(opts.dataStreamVersion)
        THEN HeadersSet(withType, "X-Vercel-AI-Data-Stream", Get(opts.dataStreamVersion))
        ELSE withType

prepareResponseHeaders(hdrs, opts) ==
    LET respHeaders == NewHeaders(IF IsSome(hdrs) THEN Get(hdrs) ELSE <<>>)
        withType == IF ~HeadersHas(respHeaders, "Content-Type")
                    THEN HeadersSet(respHeaders, "Content-Type", opts.contentType)
                    ELSE respHeaders
    IN  IF IsSome(opts.dataStreamVersion)
        THEN HeadersSet(withType, "X-Vercel-AI-Data-Stream", Get(opts.dataStreamVersion))
        ELSE withType

\* new Response(responseStream, { status, statusText, headers }) of lines 142-152
DataStreamResponse ==
    [status |-> 200, statusText |-> "OK",
     headers |-> prepareResponseHeaders(Some(<<>>),
                    [contentType |-> "text/plain; charset=utf-8",
                     dataStreamVersion |-> Some("v1")])]

\* ------------------------------------------------------ cached client
\* a || b on optional strings: b when a is undefined or ''
OrDefault(a, b) == IF IsSome(a) /\ Get(a) # "" THEN Get(a) ELSE b

NewClient(n, env) ==
    [instance |-> n,
     apiUrl |-> OrDefault(env.LANGGRAPH_API_URL, "http://localhost:2024"),
     apiKey |-> OrDefault(env.LANGGRAPH_API_KEY, "")]

\* Mutant: the cached instance is not looked at.
ClientMissingAlways(instance) == IsSome(instance) \/ ~IsSome(instance)

\* !langGraphClientInstance
ClientMissing(instance) == ~IsSome(instance)

\* The state when toDataStreamResponse has returned: route.ts has created the
\* client at module load, and the Response is assembled around the stream.
Init ==
    /\ headers = Some(<<>>)
    /\ options = [contentType |-> "text/plain; charset=utf-8", dataStreamVersion |-> Some("v1")]
    /\ responseHeaders = Some(DataStreamResponse.headers)
    /\ response = Some(DataStreamResponse)
    /\ processEnv = [LANGGRAPH_API_URL |-> None, LANGGRAPH_API_KEY |-> None]
    /\ langGraphClientInstance = Some(NewClient(1, processEnv))
    /\ clientsConstructed = 1
    /\ clientCalls = 1
    /\ returnedClient = langGraphClientInstance
    /\ streamResponse \in BoundedSeq(UpstreamEvents, MaxEvents)
    /\ streamingNodes \in SUBSET NodeTags
    /\ messageId \in MessageIds
    /\ upState = "idle"
    /\ upPos = 0
    /\ upNextCalls = 0
    /\ upReturnCalls = 0
    /\ deltaState = "none"
    /\ message = None
    /\ fullState = "start"
    /\ genQueue = <<>>
    /\ produced = <<>>
    /\ pullResult = NoResult
    /\ cancelState = "none"
    /\ rsState = "readable"
    /\ started = FALSE
    /\ pulling = FALSE
    /\ pullAgain = FALSE
    /\ closeRequested = FALSE
    /\ queue = <<>>
    /\ readRequests = 0
    /\ delivered = <<>>
    /\ consumerEnd = "open"
    /\ pullOutcome = "none"
    /\ pullCalls = 0
    /\ genNextCalls = 0

\* ------------------------------------------- fullDataStreamGenerator object
\* A return completion received at the suspended position pos: inside the
\* for-await of line 81 the loop closes the delta iterator, whose own
\* for-await closes the upstream; anywhere else the generator just ends.
ReturnCompletion(pos, dSt) ==
    IF pos = "yDelta"
    THEN [full |-> "closing", delta |-> "closingUp", callsReturn |-> TRUE]
    ELSE [full |-> "completed", delta |-> dSt, callsReturn |-> FALSE]

\* The head next() request has been settled with the generator arriving at
\* the yield position pos; a return() queued behind it resumes the
\* generator at once.
AfterSettle(pos, dSt, up) ==
    IF genQueue = <<"next", "return">>
    THEN LET r == ReturnCompletion(pos, dSt)
         IN  [full |-> r.full, delta |-> r.delta,
              up |-> IF r.callsReturn THEN "returning" ELSE up,
              returns |-> IF r.callsReturn THEN 1 ELSE 0,
              cancel |-> IF r.callsReturn THEN "pending" ELSE "done",
              queue |-> IF r.callsReturn THEN <<"return">> ELSE <<>>]
    ELSE [full |-> pos, delta |-> dSt, up |-> up, returns |-> 0,
          cancel |-> cancelState, queue |-> <<>>]

\* Mutant: after finish_message the generator yields finish_message again
\* instead of completing.
GeneratorNextRepeats ==
    /\ genNextCalls' = genNextCalls + 1
    /\ CASE fullState = "start" ->
               /\ fullState' = "yStart"
               /\ produced' = Append(produced, StartStepPart(messageId))
               /\ pullResult' = ValueResult(StartStepPart(messageId))
               /\ UNCHANGED <<deltaState, upState, upNextCalls, genQueue>>
         [] fullState \in {"yStart", "yDelta"} ->
               /\ fullState' = "awaitDelta"
               /\ deltaState' = "awaitUp"
               /\ upState' = "pending"
               /\ upNextCalls' = upNextCalls + 1
               /\ genQueue' = <<"next">>
               /\ pullResult' = NoResult
               /\ UNCHANGED produced
         [] fullState \in {"yStep", "yMsg"} /\ Len(produced) < MaxEvents + 4 ->
               /\ fullState' = "yMsg"
               /\ produced' = Append(produced, FinishMessagePart)
               /\ pullResult' = ValueResult(FinishMessagePart)
               /\ UNCHANGED <<deltaState, upState, upNextCalls, genQueue>>
         [] OTHER ->
               /\ fullState' = "completed"
               /\ pullResult' = DoneResult
               /\ UNCHANGED <<deltaState, upState, upNextCalls, genQueue, produced>>

\* generator.next() of the pull callback, the generator being suspended.
GeneratorNext ==
    /\ genNextCalls' = genNextCalls + 1
    /\ CASE fullState = "start" ->
               /\ fullState' = "yStart"
               /\ produced' = Append(produced, StartStepPart(messageId))
               /\ pullResult' = ValueResult(StartStepPart(messageId))
               /\ UNCHANGED <<deltaState, upState, upNextCalls, genQueue>>
         [] fullState \in {"yStart", "yDelta"} ->
               /\ fullState' = "awaitDelta"
               /\ deltaState' = "awaitUp"
               /\ upState' = "pending"
               /\ upNextCalls' = upNextCalls + 1
               /\ genQueue' = <<"next">>
               /\ pullResult' = NoResult
               /\ UNCHANGED produced
         [] fullState = "yStep" ->
               /\ fullState' = "yMsg"
               /\ produced' = Append(produced, FinishMessagePart)
               /\ pullResult' = ValueResult(FinishMessagePart)
               /\ UNCHANGED <<deltaState, upState, upNextCalls, genQueue>>
         [] fullState \in {"yMsg", "completed"} ->
               /\ fullState' = "completed"
               /\ pullResult' = DoneResult
               /\ UNCHANGED <<deltaState, upState, upNextCalls, genQueue, produced>>

GeneratorIdle ==
    UNCHANGED <<fullState, deltaState, upState, upNextCalls, genQueue, produced,
                genNextCalls>>

\* ------------------------------------------------- ReadableStream controller
\* Mutant: chunks are accepted whatever the state of the stream.
CanCloseOrEnqueueAlways(st, closeReq) == st \in {"readable", "closed", "errored"}

CanCloseOrEnqueue(st, closeReq) == st = "readable" /\ ~closeReq

ShouldCallPull(st, closeReq, strt, reqs, q) ==
    /\ CanCloseOrEnqueue(st, closeReq)
    /\ strt
    /\ (reqs > 0 \/ HighWaterMark - Len(q) > 0)

\* ReadableStreamDefaultControllerCallPullIfNeeded, `should` being
\* ShouldCallPull of the state the caller leaves.
CallPullIfNeeded(should) ==
    IF should /\ ~pulling
    THEN /\ pulling' = TRUE
         /\ pullCalls' = pullCalls + 1
         /\ pullAgain' = pullAgain
         /\ GeneratorNext
    ELSE /\ pulling' = pulling
         /\ pullCalls' = pullCalls
         /\ pullAgain' = (pullAgain \/ should)
         /\ GeneratorIdle
         /\ UNCHANGED pullResult

\* The start algorithm has settled: the controller pulls for the first time.
Start ==
    /\ ~started
    /\ started' = TRUE
    /\ CallPullIfNeeded(ShouldCallPull(rsState, closeRequested, TRUE, readRequests, queue))
    /\ UNCHANGED <<inputVars, glueVars, upPos, upReturnCalls, message, cancelState,
                   rsState, closeRequested, queue, readRequests, consumerVars>>

\* reader.read(): ReadableStreamDefaultReaderRead and the controller's
\* [[PullSteps]].
Read ==
    /\ consumerEnd = "open"
    /\ readRequests < MaxReadRequests
    /\ \/ /\ rsState = "closed"
          /\ consumerEnd' = "done"
          /\ GeneratorIdle
          /\ UNCHANGED <<pullResult, streamVars, delivered>>
       \/ /\ rsState = "errored"
          /\ consumerEnd' = "error"
          /\ GeneratorIdle
          /\ UNCHANGED <<pullResult, streamVars, delivered>>
       \/ /\ rsState = "readable"
          /\ queue # <<>>
          /\ delivered' = Append(delivered, Head(queue))
          /\ queue' = Tail(queue)
          /\ IF closeRequested /\ Tail(queue) = <<>>
             THEN /\ rsState' = "closed"
                  /\ GeneratorIdle
                  /\ UNCHANGED <<pullResult, pulling, pullAgain, pullCalls>>
             ELSE /\ rsState' = rsState
                  /\ CallPullIfNeeded(ShouldCallPull(rsState, closeRequested, started,
                                                     readRequests, Tail(queue)))
          /\ UNCHANGED <<consumerEnd, started, closeRequested, readRequests>>
       \/ /\ rsState = "readable"
          /\ queue = <<>>
          /\ readRequests' = readRequests + 1
          /\ CallPullIfNeeded(ShouldCallPull(rsState, closeRequested, started,
                                             readRequests + 1, queue))
          /\ UNCHANGED <<consumerEnd, delivered, rsState, started, closeRequested, queue>>
    /\ UNCHANGED <<inputVars, glueVars, upPos, upReturnCalls, message, cancelState, pullOutcome>>

\* Mutant: a return() issued while a next() is running does not wait for it.
CancelInterleaved ==
    /\ cancelState = "none"
    /\ \/ /\ rsState # "readable"
          /\ cancelState' = "done"
          /\ UNCHANGED <<upState, upReturnCalls, deltaState, fullState, genQueue,
                         streamVars, consumerEnd>>
       \/ /\ rsState = "readable"
          /\ rsState' = "closed"
          /\ queue' = <<>>
          /\ readRequests' = 0
          /\ consumerEnd' = IF readRequests > 0 THEN "done" ELSE consumerEnd
          /\ IF genQueue = <<>>
             THEN LET r == ReturnCompletion(fullState, deltaState)
                  IN  /\ fullState' = r.full
                      /\ deltaState' = r.delta
                      /\ upState' = IF r.callsReturn THEN "returning" ELSE upState
                      /\ upReturnCalls' = upReturnCalls + (IF r.callsReturn THEN 1 ELSE 0)
                      /\ genQueue' = IF r.callsReturn THEN <<"return">> ELSE <<>>
                      /\ cancelState' = IF r.callsReturn THEN "pending" ELSE "done"
             ELSE /\ genQueue' = <<"return">>
                  /\ cancelState' = "pending"
                  /\ fullState' = "closing"
                  /\ deltaState' = "closingUp"
                  /\ upState' = "returning"
                  /\ upReturnCalls' = upReturnCalls + 1
          /\ UNCHANGED <<started, pulling, pullAgain, closeRequested, pullCalls>>
    /\ UNCHANGED <<inputVars, glueVars, genNextCalls, upPos, upNextCalls, message, produced, pullResult,
                   delivered, pullOutcome>>

\* reader.cancel(reason): ReadableStreamCancel, then the cancel callback of
\* lines 109-113, generator.return(reason).
Cancel ==
    /\ cancelState = "none"
    /\ \/ /\ rsState # "readable"
          /\ cancelState' = "done"
          /\ UNCHANGED <<upState, upReturnCalls, deltaState, fullState, genQueue,
                         streamVars, consumerEnd>>
       \/ /\ rsState = "readable"
          /\ rsState' = "closed"
          /\ queue' = <<>>
          /\ readRequests' = 0
          /\ consumerEnd' = IF readRequests > 0 THEN "done" ELSE consumerEnd
          /\ IF genQueue = <<>>
             THEN LET r == ReturnCompletion(fullState, deltaState)
                  IN  /\ fullState' = r.full
                      /\ deltaState' = r.delta
                      /\ upState' = IF r.callsReturn THEN "returning" ELSE upState
                      /\ upReturnCalls' = upReturnCalls + (IF r.callsReturn THEN 1 ELSE 0)
                      /\ genQueue' = IF r.callsReturn THEN <<"return">> ELSE <<>>
                      /\ cancelState' = IF r.callsReturn THEN "pending" ELSE "done"
             ELSE /\ genQueue' = Append(genQueue, "return")
                  /\ cancelState' = "pending"
                  /\ UNCHANGED <<fullState, deltaState, upState, upReturnCalls>>
          /\ UNCHANGED <<started, pulling, pullAgain, closeRequested, pullCalls>>
    /\ UNCHANGED <<inputVars, glueVars, genNextCalls, upPos, upNextCalls, message, produced, pullResult,
                   delivered, pullOutcome>>

\* Mutant: the chunk is handed over twice.
EnqueueTwice(chunk) ==
    IF readRequests > 0
    THEN /\ delivered' = Append(delivered, chunk)
         /\ readRequests' = readRequests - 1
         /\ queue' = Append(queue, chunk)
    ELSE /\ queue' = Append(Append(queue, chunk), chunk)
         /\ UNCHANGED <<delivered, readRequests>>

\* controller.enqueue(value) of line 106 on a stream that accepts chunks:
\* the chunk resolves a pending read or joins the queue.
Enqueue(chunk) ==
    IF readRequests > 0
    THEN /\ delivered' = Append(delivered, chunk)
         /\ readRequests' = readRequests - 1
         /\ queue' = queue
    ELSE /\ queue' = Append(queue, chunk)
         /\ UNCHANGED <<delivered, readRequests>>

\* ReadableStreamDefaultControllerError, reached when the pull promise
\* rejects: a no-op unless the stream is still readable.
ControllerError ==
    IF rsState = "readable"
    THEN /\ rsState' = "errored"
         /\ queue' = <<>>
         /\ readRequests' = 0
         /\ consumerEnd' = IF readRequests > 0 THEN "error" ELSE consumerEnd
    ELSE UNCHANGED <<rsState, queue, readRequests, consumerEnd>>

\* The pull callback of lines 101-108 resumes after `await generator.next()`
\* and the controller reacts to the promise the callback returned.
PullSettle ==
    /\ pullResult.kind # "none"
    /\ \/ /\ pullResult.kind = "value"
          /\ CanCloseOrEnqueue(rsState, closeRequested)
          /\ Enqueue(pullResult.value)
          /\ pullOutcome' = "enqueued"
          /\ pullAgain' = FALSE
          /\ IF ShouldCallPull(rsState, closeRequested, started, readRequests', queue')
             THEN pulling' = TRUE /\ pullCalls' = pullCalls + 1 /\ GeneratorNext
             ELSE /\ pulling' = FALSE
                  /\ pullResult' = NoResult
                  /\ GeneratorIdle
                  /\ UNCHANGED pullCalls
          /\ UNCHANGED <<rsState, closeRequested, consumerEnd>>
       \/ /\ pullResult.kind = "value"
          /\ ~CanCloseOrEnqueue(rsState, closeRequested)
          /\ pullOutcome' = "enqueueThrew"
          /\ ControllerError
          /\ pullResult' = NoResult
          /\ GeneratorIdle
          /\ UNCHANGED <<delivered, closeRequested, pulling, pullAgain, pullCalls>>
       \/ /\ pullResult.kind = "done"
          /\ CanCloseOrEnqueue(rsState, closeRequested)
          /\ pullOutcome' = "closed"
          /\ closeRequested' = TRUE
          /\ IF queue = <<>>
             THEN /\ rsState' = "closed"
                  /\ readRequests' = 0
                  /\ consumerEnd' = IF readRequests > 0 THEN "done" ELSE consumerEnd
             ELSE UNCHANGED <<rsState, readRequests, consumerEnd>>
          /\ pulling' = FALSE
          /\ pullAgain' = FALSE
          /\ UNCHANGED pullCalls
          /\ pullResult' = NoResult
          /\ GeneratorIdle
          /\ UNCHANGED <<delivered, queue>>
       \/ /\ pullResult.kind = "done"
          /\ ~CanCloseOrEnqueue(rsState, closeRequested)
          /\ pullOutcome' = "closeThrew"
          /\ ControllerError
          /\ pullResult' = NoResult
          /\ GeneratorIdle
          /\ UNCHANGED <<delivered, closeRequested, pulling, pullAgain, pullCalls>>
       \/ /\ pullResult.kind = "error"
          /\ pullOutcome' = "rejected"
          /\ ControllerError
          /\ pullResult' = NoResult
          /\ GeneratorIdle
          /\ UNCHANGED <<delivered, closeRequested, pulling, pullAgain, pullCalls>>
    /\ UNCHANGED <<inputVars, glueVars, upPos, upReturnCalls, message, cancelState, started>>

\* ----------------------------------------------------- upstream resolutions
\* The generators arrive at a yield with `part`: the head next() request is
\* settled with it and a queued return() is taken up.
YieldPart(part, pos, dSt, up) ==
    LET a == AfterSettle(pos, dSt, up)
    IN  /\ produced' = Append(produced, part)
        /\ pullResult' = ValueResult(part)
        /\ fullState' = a.full
        /\ deltaState' = a.delta
        /\ upState' = a.up
        /\ upReturnCalls' = upReturnCalls + a.returns
        /\ cancelState' = a.cancel
        /\ genQueue' = a.queue

\* The generators end by an exception: the head next() request is rejected;
\* a queued return() then finds the generator completed.
ThrowOut(up) ==
    /\ pullResult' = ErrorResult
    /\ fullState' = "completed"
    /\ deltaState' = "completed"
    /\ upState' = up
    /\ cancelState' = IF genQueue = <<"next", "return">> THEN "done" ELSE cancelState
    /\ genQueue' = <<>>
    /\ UNCHANGED <<produced, upReturnCalls>>

\* The upstream's next() resolves with the next event: one iteration of the
\* for-await body of lines 62-71.
UpstreamDeliver ==
    /\ upState = "pending"
    /\ upPos < Len(streamResponse)
    /\ upPos' = upPos + 1
    /\ message' = Some(streamResponse[upPos + 1])
    /\ LET step == DeltaStep(streamResponse[upPos + 1], streamingNodes)
       IN  \/ /\ step = "skip"
              /\ upNextCalls' = upNextCalls + 1
              /\ UNCHANGED <<upState, upReturnCalls, deltaState, fullState, genQueue,
                             produced, pullResult, cancelState>>
           \/ /\ step = "yield"
              /\ YieldPart(TextPart(Current(streamResponse[upPos + 1])),
                           "yDelta", "yield", "idle")
              /\ UNCHANGED upNextCalls
           \/ /\ step = "throw"
              /\ deltaState' = "closingUpThrow"
              /\ upState' = "returning"
              /\ upReturnCalls' = upReturnCalls + 1
              /\ UNCHANGED <<upNextCalls, fullState, genQueue, produced, pullResult,
                             cancelState>>
    /\ UNCHANGED <<inputVars, glueVars, genNextCalls, streamVars, consumerVars>>

\* The upstream's next() resolves with done: the loop of lines 62-71 ends,
\* that of lines 81-83 ends, and line 85 yields finish_step.
UpstreamEnd ==
    /\ upState = "pending"
    /\ upPos = Len(streamResponse)
    /\ YieldPart(FinishStepPart, "yStep", "completed", "done")
    /\ UNCHANGED <<inputVars, glueVars, genNextCalls, upPos, upNextCalls, message, streamVars,
                   consumerVars>>

\* Mutant: the rejection is swallowed and the envelope is finished.
UpstreamFailAsEnd ==
    /\ upState = "pending"
    /\ YieldPart(FinishStepPart, "yStep", "completed", "failed")
    /\ UNCHANGED <<inputVars, glueVars, genNextCalls, upPos, upNextCalls, message, streamVars,
                   consumerVars>>

\* The upstream's next() rejects: the exception leaves both generators.
UpstreamFail ==
    /\ upState = "pending"
    /\ ThrowOut("failed")
    /\ UNCHANGED <<inputVars, glueVars, genNextCalls, upPos, upNextCalls, message, streamVars,
                   consumerVars>>

\* The upstream's return() resolves, called by the for-await of line 62
\* when it is left by a return completion or by an exception of its body.
UpstreamReturned ==
    /\ upState = "returning"
    /\ \/ /\ deltaState = "closingUp"
          /\ upState' = "returned"
          /\ deltaState' = "completed"
          /\ fullState' = "completed"
          /\ genQueue' = <<>>
          /\ cancelState' = "done"
          /\ UNCHANGED <<pullResult, produced, upReturnCalls>>
       \/ /\ deltaState = "closingUpThrow"
          /\ ThrowOut("returned")
    /\ UNCHANGED <<inputVars, glueVars, genNextCalls, upPos, upNextCalls, message, streamVars,
                   consumerVars>>

Next ==
    \/ Start
    \/ Read
    \/ Cancel
    \/ PullSettle
    \/ UpstreamDeliver
    \/ UpstreamEnd
    \/ UpstreamFail
    \/ UpstreamReturned

Spec == Init /\ [][Next]_vars

\* A consumer that reads on and never cancels, over an upstream that never
\* rejects: reads, pulls and upstream resolutions are not postponed for ever.
LiveNext ==
    \/ Start
    \/ Read
    \/ PullSettle
    \/ UpstreamDeliver
    \/ UpstreamEnd
    \/ UpstreamReturned

LiveSpec ==
    /\ Init
    /\ [][LiveNext]_vars
    /\ WF_vars(Start)
    /\ WF_vars(Read)
    /\ WF_vars(PullSettle)
    /\ WF_vars(UpstreamDeliver)
    /\ WF_vars(UpstreamEnd)
    /\ WF_vars(UpstreamReturned)

\* ------------------------------------------- helpers outside the stream
Envs ==
    [LANGGRAPH_API_URL : {None, Some(""), Some("https://graph.example")},
     LANGGRAPH_API_KEY : {None, Some("key")}]

HeaderOptions ==
    [contentType : {"text/plain; charset=utf-8"},
     dataStreamVersion : {None, Some("v1")}]

\* Before any helper has run: no client cached, no headers prepared, no
\* Response built; the stream side rests in its constructed state.
GlueInit ==
    /\ headers \in {None} \cup {Some(h) : h \in HeadersInits}
    /\ options \in HeaderOptions
    /\ responseHeaders = None
    /\ response = None
    /\ processEnv \in Envs
    /\ langGraphClientInstance = None
    /\ clientsConstructed = 0
    /\ clientCalls = 0
    /\ returnedClient = None
    /\ streamResponse = <<>>
    /\ streamingNodes = NodeTags
    /\ messageId \in MessageIds
    /\ upState = "idle" /\ upPos = 0 /\ upNextCalls = 0 /\ upReturnCalls = 0
    /\ deltaState = "none" /\ message = None /\ fullState = "start"
    /\ genQueue = <<>> /\ produced = <<>> /\ pullResult = NoResult
    /\ cancelState = "none" /\ genNextCalls = 0
    /\ rsState = "readable" /\ started = FALSE /\ pulling = FALSE
    /\ pullAgain = FALSE /\ closeRequested = FALSE /\ queue = <<>>
    /\ pullCalls = 0
    /\ readRequests = 0 /\ delivered = <<>> /\ consumerEnd = "open"
    /\ pullOutcome = "none"

streamSide == <<inputVars, upVars, genVars, streamVars, consumerVars>>

\* prepareResponseHeaders(headers, { contentType, dataStreamVersion })
PrepareResponseHeaders ==
    /\ responseHeaders = None
    /\ responseHeaders' = Some(prepareResponseHeaders(headers, options))
    /\ UNCHANGED <<headers, options, response, clientVars, streamSide>>

\* toDataStreamResponse: the Response around the encoded stream
ToDataStreamResponse ==
    /\ response = None
    /\ response' = Some(DataStreamResponse)
    /\ UNCHANGED <<headers, options, responseHeaders, clientVars, streamSide>>

\* createLangGraphClient()
CreateLangGraphClient ==
    /\ clientCalls < MaxClientCalls
    /\ clientCalls' = clientCalls + 1
    /\ IF ClientMissing(langGraphClientInstance)
       THEN /\ langGraphClientInstance' = Some(NewClient(clientsConstructed + 1, processEnv))
            /\ clientsConstructed' = clientsConstructed + 1
       ELSE UNCHANGED <<langGraphClientInstance, clientsConstructed>>
    /\ returnedClient' = langGraphClientInstance'
    /\ UNCHANGED <<processEnv, headerVars, streamSide>>

GlueNext ==
    \/ PrepareResponseHeaders
    \/ ToDataStreamResponse
    \/ CreateLangGraphClient

GlueSpec == GlueInit /\ [][GlueNext]_vars

\* ------------------------------------------------------------------ typing
Parts ==
    {StartStepPart(id) : id \in MessageIds}
        \cup {TextPart(c) : c \in {"Hi", "Yo", ""}}
        \cup {FinishStepPart, FinishMessagePart}

TypeOK ==
    /\ upState \in {"idle", "pending", "done", "failed", "returning", "returned"}
    /\ upPos \in 0..Len(streamResponse)
    /\ upNextCalls \in 0..(Len(streamResponse) + 1)
    /\ upReturnCalls \in 0..1
    /\ deltaState \in {"none", "awaitUp", "yield", "closingUp", "closingUpThrow", "completed"}
    /\ fullState \in {"start", "yStart", "awaitDelta", "yDelta", "closing", "yStep",
                      "yMsg", "completed"}
    /\ genQueue \in {<<>>, <<"next">>, <<"return">>, <<"next", "return">>}
    /\ pullResult.kind \in {"none", "value", "done", "error"}
    /\ cancelState \in {"none", "pending", "done"}
    /\ rsState \in {"readable", "closed", "errored"}
    /\ Len(queue) <= HighWaterMark
    /\ readRequests \in 0..MaxReadRequests
    /\ consumerEnd \in {"open", "done", "error"}
    /\ \A i \in 1..Len(produced) : produced[i] \in Parts
    /\ clientsConstructed \in 0..MaxClientCalls
    /\ clientCalls \in 0..MaxClientCalls
    /\ Len(responseHeaders) <= 1 /\ Len(response) <= 1
    /\ Len(langGraphClientInstance) <= 1 /\ Len(returnedClient) <= 1

\* ============================================================== properties
\* The vocabulary of the specification, read off the event alone.
EventTag(e) ==
    IF IsSome(e.data) /\ IsSome(Get(e.data)[2])
    THEN Get(Get(e.data)[2]).langgraph_node
    ELSE None

EventContent(e) ==
    IF IsSome(e.data) /\ IsSome(Get(e.data)[1])
    THEN Get(Get(e.data)[1]).content
    ELSE None

KindIsMessages(e) == e.event = "messages"
TagIncluded(e) == IsSome(EventTag(e)) /\ Get(EventTag(e)) \in streamingNodes
ContentNonEmpty(e) == IsSome(EventContent(e)) /\ Get(EventContent(e)) # ""
Accepted(e) == KindIsMessages(e) /\ TagIncluded(e) /\ ContentNonEmpty(e)

RECURSIVE AcceptedContents(_)
AcceptedContents(evs) ==
    IF evs = <<>>
    THEN <<>>
    ELSE (IF Accepted(Head(evs)) THEN <<Get(EventContent(Head(evs)))>> ELSE <<>>)
            \o AcceptedContents(Tail(evs))

IsText(part) == PartCode(part) = "0"
TextParts(parts) == SelectSeq(parts, IsText)
TextContents(parts) == [i \in 1..Len(TextParts(parts)) |-> PartValue(TextParts(parts)[i])]

\* Start, Text*, StepFinish, MessageFinish
IsEnvelope(parts) ==
    /\ Len(parts) >= 3
    /\ parts[1] = StartStepPart(messageId)
    /\ \A i \in 2..(Len(parts) - 2) : IsText(parts[i])
    /\ parts[Len(parts) - 1] = FinishStepPart
    /\ parts[Len(parts)] = FinishMessagePart

IsEnvelopePrefix(parts) ==
    \A i \in 1..Len(parts) :
        \/ i = 1 /\ parts[i] = StartStepPart(messageId)
        \/ i > 1 /\ IsText(parts[i]) /\ \A j \in 2..i : IsText(parts[j])
        \/ i > 1 /\ parts[i] = FinishStepPart /\ \A j \in 2..(i - 1) : IsText(parts[j])
        \/ i > 2 /\ parts[i] = FinishMessagePart /\ parts[i - 1] = FinishStepPart
                 /\ i = Len(parts)

\* This step makes the sequencer yield a text frame.
TextProduced ==
    /\ Len(produced') = Len(produced) + 1
    /\ IsText(produced'[Len(produced')])

\* C1: for every upstream event sequence that ends normally, with a
\* consumer that keeps reading and never cancels, the stream never errors,
\* the frames delivered are always a prefix of Start, Text*, StepFinish,
\* MessageFinish, and when the consumer sees the end of the stream it has
\* received exactly Start, Text*, StepFinish, MessageFinish.
C1_Envelope ==
    (upState # "failed" /\ cancelState = "none") =>
        /\ rsState # "errored"
        /\ consumerEnd # "error"
        /\ IsEnvelopePrefix(delivered)
        /\ (consumerEnd = "done" => IsEnvelope(delivered))

\* An event that has a data part and whose producer tag (data[1].langgraph_node,
\* possibly missing) is not in streamingNodes.
TagOutside(e) == IsSome(e.data) /\ ~TagIncluded(e)

AllTagsOutside == \A i \in 1..Len(streamResponse) : TagOutside(streamResponse[i])

\* C2: an event whose producer tag is not in streamingNodes never makes the
\* sequencer yield a text frame, and when every event of the upstream is
\* such an event a drained session delivers Start, StepFinish,
\* MessageFinish and nothing else.
C2_FilterPurity ==
    /\ [][TextProduced => TagIncluded(Get(message'))]_vars
    /\ [](AllTagsOutside =>
            /\ TextParts(produced) = <<>>
            /\ (consumerEnd = "done" /\ cancelState = "none" =>
                    delivered = <<StartStepPart(messageId), FinishStepPart,
                                  FinishMessagePart>>))

C2_Witness ==
    /\ AllTagsOutside
    /\ \E i \in 1..Len(streamResponse) :
            /\ KindIsMessages(streamResponse[i])
            /\ ContentNonEmpty(streamResponse[i])
            /\ EventTag(streamResponse[i]) = Some("other_node")
    /\ upPos = Len(streamResponse)
    /\ consumerEnd = "done"
    /\ cancelState = "none"
    /\ Len(delivered) = 3

\* C3: an event whose message part is missing, or whose content is missing
\* or empty, never makes the sequencer yield a text frame, even when its
\* kind is 'messages' and its tag is in streamingNodes.
C3_EmptyContentDropped ==
    [][TextProduced => ContentNonEmpty(Get(message'))]_vars

C3_Witness ==
    /\ IsSome(message)
    /\ KindIsMessages(Get(message))
    /\ TagIncluded(Get(message))
    /\ ~ContentNonEmpty(Get(message))
    /\ upPos = Len(streamResponse)
    /\ consumerEnd = "done"
    /\ cancelState = "none"
    /\ TextParts(delivered) = <<>>

\* C4: the sequencer yields a text frame only for an event of kind
\* 'messages' whose tag is in streamingNodes and whose content is
\* non-empty, and the frame carries that content.
C4_AllThreeConditions ==
    [][TextProduced =>
            /\ Accepted(Get(message'))
            /\ produced'[Len(produced')] = TextPart(Get(EventContent(Get(message'))))]_vars

C4_Witness ==
    /\ IsSome(message)
    /\ ~KindIsMessages(Get(message))
    /\ IsSome(Get(message).data)
    /\ TagIncluded(Get(message))
    /\ ContentNonEmpty(Get(message))
    /\ upPos = Len(streamResponse)
    /\ consumerEnd = "done"
    /\ cancelState = "none"
    /\ TextParts(delivered) = <<>>

\* C5: when the upstream ends normally and the consumer has read the
\* stream to its end without cancelling, the contents of the text frames
\* delivered are the contents of the accepted upstream events, in arrival
\* order.
C5_TextOrder ==
    (upState # "failed" /\ cancelState = "none" /\ consumerEnd # "open") =>
        TextContents(delivered) = AcceptedContents(streamResponse)

\* C6: from the cancellation on no frame reaches the consumer and none is
\* left in the stream's queue, whatever was in flight when it was issued.
C6_NoFrameAfterCancel ==
    [][cancelState' # "none" => delivered' = delivered /\ queue' = <<>>]_vars

C6_Witness ==
    /\ cancelState # "none"
    /\ pullOutcome = "enqueueThrew"
    /\ Len(delivered) >= 1
    /\ Len(produced) > Len(delivered)

\* C7: when a cancel issued after the Start frame was produced, and before
\* the upstream ended by itself, has completed, the upstream's return() has
\* been called.
C7_CancelReachesUpstream ==
    (cancelState = "done" /\ Len(produced) >= 1 /\ upState \notin {"done", "failed"}) =>
        upReturnCalls >= 1

\* C8: once the consumer has cancelled, the upstream is not waiting on a
\* next() any more and its next() is not called again.
C8_CancelReleasesWait ==
    /\ [](cancelState # "none" => upState # "pending")
    /\ [][cancelState # "none" => upNextCalls' = upNextCalls]_vars

\* C9: as long as the upstream itself does not fail, no event, whatever
\* its shape, makes a pull fail or the stream error.
C9_MalformedDropped ==
    upState # "failed" =>
        /\ pullResult.kind # "error"
        /\ pullOutcome # "rejected"
        /\ rsState # "errored"

\* C10: once the upstream's next() has rejected, no frame is produced or
\* delivered any more, and when the failing pull has settled the stream is
\* no longer readable and no read is left pending.
C10_UpstreamFailureTerminates ==
    /\ [][upState' = "failed" => delivered' = delivered /\ produced' = produced]_vars
    /\ [](upState = "failed" /\ pullResult.kind = "none" =>
            rsState # "readable" /\ readRequests = 0)

C10_Witness ==
    /\ upState = "failed"
    /\ pullResult.kind = "none"
    /\ rsState = "errored"
    /\ consumerEnd = "error"
    /\ Len(delivered) >= 2
    /\ FinishStepPart \notin {produced[i] : i \in 1..Len(produced)}

HasFinishMessage(parts) == \E i \in 1..Len(parts) : PartCode(parts[i]) = "d"

\* C11: once finish_message has been yielded the sequencer yields nothing
\* more, every further generator.next() reports done, the pull that gets
\* that completion on a readable stream closes it, and finish_message is
\* the last frame the consumer ever has.
C11_TerminalAfterMessageFinish ==
    /\ [][HasFinishMessage(produced) => produced' = produced]_vars
    /\ [][HasFinishMessage(produced) /\ genNextCalls' > genNextCalls =>
            pullResult'.kind = "done" /\ fullState' = "completed"]_vars
    /\ [][PullSettle /\ pullResult.kind = "done" /\ rsState = "readable" =>
            rsState' = "closed" /\ delivered' = delivered /\ queue' = queue]_vars
    /\ [](\A i \in 1..Len(delivered) :
            PartCode(delivered[i]) = "d" => i = Len(delivered) /\ queue = <<>>)

C11_Witness ==
    /\ HasFinishMessage(delivered)
    /\ genNextCalls = Len(produced) + 1
    /\ fullState = "completed"
    /\ pullOutcome = "closed"
    /\ rsState = "closed"
    /\ consumerEnd = "done"
    /\ Len(delivered) >= 4

CallerContentType ==
    IF IsSome(headers) /\ \E k \in DOMAIN Get(headers) : k \in {"Content-Type", "content-type"}
    THEN Some(Get(headers)[CHOOSE k \in DOMAIN Get(headers) : k \in {"Content-Type", "content-type"}])
    ELSE None

\* C12: every Response of the assembler is 200 OK with the data-stream
\* version header "v1" and the default plain-text UTF-8 content type; the
\* header helper keeps a content type the caller supplied, fills in the
\* default only when there is none, keeps the caller's other headers, and
\* sets the version header whenever a version is given.
C12_ResponseHeaders ==
    /\ IsSome(response) =>
          /\ Get(response).status = 200
          /\ "x-vercel-ai-data-stream" \in DOMAIN Get(response).headers
          /\ Get(response).headers["x-vercel-ai-data-stream"] = "v1"
          /\ "content-type" \in DOMAIN Get(response).headers
          /\ Get(response).headers["content-type"] = "text/plain; charset=utf-8"
    /\ IsSome(responseHeaders) =>
          LET h == Get(responseHeaders) IN
          /\ "content-type" \in DOMAIN h
          /\ h["content-type"] = IF IsSome(CallerContentType)
                                 THEN Get(CallerContentType)
                                 ELSE options.contentType
          /\ IsSome(options.dataStreamVersion) =>
                /\ "x-vercel-ai-data-stream" \in DOMAIN h
                /\ h["x-vercel-ai-data-stream"] = Get(options.dataStreamVersion)
          /\ IsSome(headers) /\ "X-Request-Id" \in DOMAIN Get(headers) =>
                /\ "x-request-id" \in DOMAIN h
                /\ h["x-request-id"] = Get(headers)["X-Request-Id"]

C12_Witness ==
    /\ IsSome(response)
    /\ IsSome(responseHeaders)
    /\ IsSome(CallerContentType)
    /\ Get(CallerContentType) = "application/json"
    /\ Get(responseHeaders)["content-type"] = "application/json"
    /\ IsSome(options.dataStreamVersion)

IsPrefix(s, t) == Len(s) <= Len(t) /\ \A i \in 1..Len(s) : s[i] = t[i]

RECURSIVE ExpectedTexts(_, _)
ExpectedTexts(evs, nodes) ==
    IF evs = <<>> THEN <<>>
    ELSE CASE DeltaStep(Head(evs), nodes) = "throw" -> <<>>
           [] DeltaStep(Head(evs), nodes) = "yield" ->
                <<formatDataStreamPart("text", Get(EventContent(Head(evs))))>>
                    \o ExpectedTexts(Tail(evs), nodes)
           [] OTHER -> ExpectedTexts(Tail(evs), nodes)

FilterThrows(evs, nodes) == \E i \in 1..Len(evs) : DeltaStep(evs[i], nodes) = "throw"

\* The frame sequence as a function of the three inputs of a session alone.
ExpectedFrames(evs, nodes, id) ==
    <<StartStepPart(id)>> \o ExpectedTexts(evs, nodes)
        \o (IF FilterThrows(evs, nodes) THEN <<>> ELSE <<FinishStepPart, FinishMessagePart>>)

\* C13: the frames of a session are a function of the upstream event
\* sequence, the inclusion set and the turn identifier: whatever the
\* interleaving of reads, cancel and upstream resolutions, the frames produced
\* are a prefix of that one sequence, the frames delivered are a prefix of the
\* frames produced, and a session that closes uncancelled has produced all of it.
C13_OutputIsFunctionOfInputs ==
    /\ IsPrefix(produced, ExpectedFrames(streamResponse, streamingNodes, messageId))
    /\ IsPrefix(delivered, produced)
    /\ pullOutcome = "closed" =>
          produced = ExpectedFrames(streamResponse, streamingNodes, messageId)

C13_Witness ==
    /\ pullOutcome = "closed"
    /\ Len(streamResponse) = MaxEvents
    /\ Len(TextParts(produced)) = 1
    /\ produced = ExpectedFrames(streamResponse, streamingNodes, messageId)
    /\ delivered = produced

\* The frames handed to the stream so far: read by the consumer or queued.
HandedOver == delivered \o queue

\* C14 as stated: every pull ends with one frame enqueued or with the
\* stream closed.
C14_PullEnqueuesOrCloses ==
    [][PullSettle => pullOutcome' \in {"enqueued", "closed"}]_vars

\* C14: each pull calls generator.next() exactly once and enqueues at most
\* one frame. A pull whose next() fulfils while the stream is readable ends
\* in exactly one of: that one frame enqueued, or the stream closed; a pull
\* whose next() rejects errors the stream and a pull overtaken by cancel hands
\* nothing over. After the pull that closed the stream the sequencer is not
\* advanced again.
C14_OneStepPerPull ==
    /\ [](genNextCalls = pullCalls)
    /\ [][PullSettle /\ pullResult.kind = "value" /\ rsState = "readable" =>
            /\ pullOutcome' = "enqueued"
            /\ HandedOver' = Append(HandedOver, pullResult.value)
            /\ rsState' = "readable" /\ ~closeRequested']_vars
    /\ [][PullSettle /\ pullResult.kind = "done" /\ rsState = "readable" =>
            /\ pullOutcome' = "closed"
            /\ closeRequested'
            /\ HandedOver' = HandedOver]_vars
    /\ [][PullSettle /\ pullResult.kind = "error" =>
            /\ pullOutcome' = "rejected"
            /\ rsState' # "readable"
            /\ delivered' = delivered /\ queue' = <<>>]_vars
    /\ [][PullSettle /\ rsState # "readable" =>
            /\ pullOutcome' \in {"enqueueThrew", "closeThrew", "rejected"}
            /\ delivered' = delivered /\ queue' = queue]_vars
    /\ [][closeRequested =>
            genNextCalls' = genNextCalls /\ pullCalls' = pullCalls]_vars

C14_Witness ==
    /\ pullOutcome = "closed"
    /\ closeRequested
    /\ genNextCalls = pullCalls
    /\ pullCalls = Len(produced) + 1
    /\ Len(produced) >= 4
    /\ HandedOver = produced

\* upstream next() calls that have not been settled yet
Outstanding ==
    upNextCalls - upPos - (IF upState \in {"done", "failed"} THEN 1 ELSE 0)

Count(q, x) == Cardinality({i \in 1..Len(q) : q[i] = x})

\* C15: the upstream never has two next() requests outstanding and its
\* return() is never called while one is; generator.next() is called only
\* when the sequencer is not running; the sequencer's request queue holds at
\* most the running next() and one return() behind it; and a cancel arriving
\* while a pull is running is queued behind it without touching the
\* generators or the upstream.
C15_OneAdvancementAtATime ==
    /\ [](Outstanding \in {0, 1} /\ (Outstanding = 1 <=> upState = "pending"))
    /\ [](upState \in {"returning", "returned"} => Outstanding = 0)
    /\ [](Count(genQueue, "next") <= 1 /\ Count(genQueue, "return") <= 1)
    /\ [][genNextCalls' > genNextCalls => genQueue = <<>> /\ upState # "pending"]_vars
    /\ [][pullCalls' > pullCalls =>
            pullCalls' = pullCalls + 1 /\ (pulling => PullSettle)]_vars
    /\ [][Cancel /\ rsState = "readable" /\ genQueue # <<>> =>
            /\ genQueue' = Append(genQueue, "return")
            /\ upReturnCalls' = upReturnCalls
            /\ UNCHANGED <<fullState, deltaState, upState, upNextCalls, produced>>]_vars

C15_Witness ==
    /\ genQueue = <<"next", "return">>
    /\ cancelState = "pending"
    /\ upState = "pending"
    /\ Outstanding = 1
    /\ upReturnCalls = 0
    /\ pulling

IsStart(part) == PartCode(part) = "f"

\* C16: the upstream's next() is not called before the Start frame has been
\* produced; the Start frame is the first frame, the only Start frame, and
\* carries the identifier of the session, which never changes during it.
C16_StartBeforeUpstream ==
    /\ [](upNextCalls > 0 \/ upPos > 0 \/ upState # "idle" =>
            Len(produced) >= 1 /\ IsStart(produced[1]))
    /\ [](\A i \in 1..Len(produced) :
            IsStart(produced[i]) <=> i = 1)
    /\ [](\A i \in 1..Len(produced) :
            IsStart(produced[i]) => PartValue(produced[i]) = [messageId |-> messageId])
    /\ [][upNextCalls' > upNextCalls => Len(produced) >= 1 /\ IsStart(produced[1])]_vars
    /\ [][messageId' = messageId]_vars

C16_Witness ==
    /\ upNextCalls = 1
    /\ upState = "pending"
    /\ upPos = 0
    /\ produced = <<StartStepPart(messageId)>>
    /\ delivered = produced
    /\ messageId = "msg-2"

\* the pull callback has been called and the promise it returned is pending
PullInFlight == pulling /\ pullResult.kind = "none"

\* C17: the upstream's next() is called only while a pull is in flight, one
\* call at a time, and never before the pull that follows the one yielding
\* Start; while the upstream is asked, a pull is waiting for it; at most one
\* frame is buffered, and at most one frame produced has not reached the
\* consumer.
C17_DemandGated ==
    /\ [][upNextCalls' > upNextCalls =>
            /\ upNextCalls' = upNextCalls + 1
            /\ pulling' /\ pullResult'.kind = "none"
            /\ started]_vars
    /\ [](upState = "pending" => PullInFlight)
    /\ [](upNextCalls > 0 => pullCalls >= 2)
    /\ [](Len(queue) <= 1)
    /\ [](Len(produced) - Len(delivered) <= 1)

C17_Witness ==
    /\ Len(queue) = 1
    /\ Len(produced) = 3
    /\ Len(delivered) = 2
    /\ upNextCalls = Len(streamResponse) + 1
    /\ Len(streamResponse) = MaxEvents
    /\ ~pulling
    /\ rsState = "readable"

PlaceholderUsage == [promptTokens |-> 55, completionTokens |-> 20]

\* C18: every finish_step frame is {finishReason 'stop', usage, isContinued
\* false} and every finish_message frame is {finishReason 'stop', usage} with
\* the same usage, the fixed counts 55 and 20, whatever the upstream events
\* and the inclusion set.
C18_FinishFramesFixed ==
    \A i \in 1..Len(produced) :
        /\ PartCode(produced[i]) = "e" =>
              PartValue(produced[i]) =
                  [finishReason |-> "stop", usage |-> PlaceholderUsage, isContinued |-> FALSE]
        /\ PartCode(produced[i]) = "d" =>
              PartValue(produced[i]) = [finishReason |-> "stop", usage |-> PlaceholderUsage]

C18_Witness ==
    /\ Len(produced) = 4
    /\ PartCode(produced[2]) = "0"
    /\ PartCode(produced[3]) = "e"
    /\ PartCode(produced[4]) = "d"
    /\ PartValue(produced[3]).usage = PartValue(produced[4]).usage
    /\ Len(streamResponse) = MaxEvents
    /\ streamingNodes = NodeTags
    /\ delivered = produced

\* C19: under a consumer that keeps reading and never cancels, over an
\* upstream that ends normally, the stream is eventually closed with
\* finish_message as the last frame delivered and no pull left unresolved.
C19_EventuallyClosed ==
    <>(/\ rsState = "closed"
       /\ consumerEnd = "done"
       /\ HasFinishMessage(delivered)
       /\ pullResult.kind = "none")

\* C20: across any sequence of createLangGraphClient calls the client is
\* constructed at most once, by the first call; every call returns the
\* cached instance, and a cached instance is never replaced or cleared.
C20_ClientSingleton ==
    /\ [](clientsConstructed <= 1)
    /\ [](clientCalls >= 1 =>
            /\ clientsConstructed = 1
            /\ IsSome(langGraphClientInstance)
            /\ Get(langGraphClientInstance).instance = 1
            /\ returnedClient = langGraphClientInstance)
    /\ [][IsSome(langGraphClientInstance) =>
            langGraphClientInstance' = langGraphClientInstance]_vars
    /\ [][clientCalls' > clientCalls /\ clientCalls >= 1 =>
            returnedClient' = returnedClient]_vars

C20_Witness ==
    /\ clientCalls = MaxClientCalls
    /\ clientsConstructed = 1
    /\ IsSome(returnedClient)
    /\ Get(returnedClient).apiUrl = "https://graph.example"
    /\ Get(returnedClient).apiKey = "key"
====
